---- MODULE Spec2Model ----
(***************************************************************************)
(* A model of v3io_gputils/mpijob.py: the MpiJob builder over the MPIJob   *)
(* custom resource (launcher / worker pod templates), its submit / delete  *)
(* calls on the Kubernetes custom objects client, and split_path.          *)
(*                                                                         *)
(* Python objects live in a heap indexed by references, because the code   *)
(* stores the pod template dictionaries by reference inside the job        *)
(* structure and the module-level default templates are shared objects.    *)
(* A Python dict is a function whose DOMAIN is the set of keys present; a   *)
(* Python str that the code indexes or slices is a sequence of one-letter  *)
(* strings; a Python list is a sequence.                                   *)
(***************************************************************************)
EXTENDS Integers, Sequences, FiniteSets, TLC

VARIABLES
    env,        \* os.environ: V3IO_ACCESS_KEY, V3IO_USERNAME, V3IO_HOME
    heap,       \* reference -> pod template dictionary
    objs,       \* builder -> the MpiJob instance's attributes (constructed ones)
    sent,       \* requests handed to the CustomObjectsApi client, in order
    last,       \* the call that ran last: op, builder, arguments, outcome
    hist,       \* builder -> the arguments of its latest replicas / gpus / volume call
    calls,      \* number of calls made so far
    mntpath,    \* split_path: the argument
    out,        \* split_path: the outcome
    pc          \* split_path: "start" before the call, "done" after it, "idle" in Spec

vars == <<env, heap, objs, sent, last, hist, calls, mntpath, out, pc>>

(***************************************************************************)
(* Bounds of the model.                                                    *)
(***************************************************************************)
MaxCalls == 3
MaxLen == 4
MaxReplicas == 2
MaxGpus == 2

(***************************************************************************)
(* Strings as sequences of letters.                                        *)
(***************************************************************************)
Users == <<"u", "s", "e", "r", "s">>
Slash == "/"
Tilde == "~"
Letters == {Slash, "c", "s"}

RECURSIVE StringsUpTo(_)
StringsUpTo(n) ==
    IF n = 0 THEN {<<>>}
    ELSE LET shorter == StringsUpTo(n - 1)
         IN shorter \cup {Append(s, ch) : s \in {t \in shorter : Len(t) = n - 1}, ch \in Letters}

(***************************************************************************)
(* Python dict assignment d[k] = v: the key is added when absent.          *)
(***************************************************************************)
SetKey(d, k, v) == [x \in (DOMAIN d) \cup {k} |-> IF x = k THEN v ELSE d[x]]

(***************************************************************************)
(* str.split(sep): the segments between separators; always at least one.   *)
(***************************************************************************)
RECURSIVE split(_, _)
split(s, sep) ==
    IF \A i \in 1..Len(s) : s[i] # sep THEN <<s>>
    ELSE LET i == CHOOSE j \in 1..Len(s) : s[j] = sep /\ \A k \in 1..(j - 1) : s[k] # sep
         IN <<SubSeq(s, 1, i - 1)>> \o split(SubSeq(s, i + 1, Len(s)), sep)

Returned(container, subpath) == [raised |-> "none", container |-> container, subpath |-> subpath]
Raised(exc) == [raised |-> exc, container |-> <<>>, subpath |-> <<>>]

(***************************************************************************)
(* split_path(mntpath): mntpath[0] raises IndexError on the empty string.  *)
(***************************************************************************)
split_path_lstrip(p) ==
    IF Len(p) = 0 THEN Raised("IndexError")
    ELSE LET RECURSIVE strip(_)
             strip(s) == IF Len(s) > 0 /\ s[1] = Slash THEN strip(Tail(s)) ELSE s
             stripped == strip(p)
             paths == split(stripped, Slash)
             container == paths[1]
         IN Returned(container,
                     IF Len(paths) > 1
                     THEN SubSeq(stripped, Len(container) + 1, Len(stripped))
                     ELSE <<>>)

split_path_guarded(p) ==
    LET stripped == IF Len(p) > 0 /\ p[1] = Slash THEN Tail(p) ELSE p
        paths == split(stripped, Slash)
        container == paths[1]
    IN Returned(container,
                IF Len(paths) > 1
                THEN SubSeq(stripped, Len(container) + 1, Len(stripped))
                ELSE <<>>)

split_path(p) ==
    IF Len(p) = 0 THEN Raised("IndexError")
    ELSE LET stripped == IF p[1] = Slash THEN Tail(p) ELSE p
             paths == split(stripped, Slash)
             container == paths[1]
         IN Returned(container,
                     IF Len(paths) > 1
                     THEN SubSeq(stripped, Len(container) + 1, Len(stripped))
                     ELSE <<>>)

(***************************************************************************)
(* MPIJobPodTemplateType and the module-level default pod templates.       *)
(***************************************************************************)
launcher == "launcher"
worker == "worker"
all == <<launcher, worker>>

DefaultImage == "iguaziodocker/horovod:0.1.1"
SecurityContext == [capabilities |-> [add |-> <<"IPC_LOCK">>]]
UserDir == "/User"
NvidiaGpu == "nvidia.com/gpu"

FlexVolume(container, subPath, accessKey) ==
    [name |-> "v3io",
     flexVolume |-> [driver |-> "v3io/fuse",
                     options |-> [container |-> container,
                                  subPath |-> subPath,
                                  accessKey |-> accessKey]]]

VolumeMount(mount) == [name |-> "v3io", mountPath |-> mount]

Limits(gpu_type, num) == [limits |-> SetKey(<<>>, gpu_type, num)]

_mpijob_launcher_pod_template ==
    [spec |-> [containers |-> <<[image |-> DefaultImage,
                                 name |-> "",
                                 command |-> <<>>,
                                 workingDir |-> UserDir,
                                 securityContext |-> SecurityContext]>>,
               volumes |-> <<FlexVolume(Users, <<>>, "")>>]]

_mpijob_worker_pod_template ==
    [spec |-> [containers |-> <<[image |-> DefaultImage,
                                 name |-> "",
                                 command |-> <<>>,
                                 volumeMounts |-> <<VolumeMount(UserDir)>>,
                                 workingDir |-> UserDir,
                                 securityContext |-> SecurityContext,
                                 resources |-> Limits(NvidiaGpu, 1)]>>,
               volumes |-> <<FlexVolume(Users, <<>>, "")>>]]

(***************************************************************************)
(* References.  The two module-level templates are objects of the heap;    *)
(* every builder has two references of its own for its copies.             *)
(***************************************************************************)
Builders == {"A", "B"}
Other(b) == IF b = "A" THEN "B" ELSE "A"
ModuleRef(template_type) == <<"module", template_type>>
FreshRef(b, template_type) == <<b, template_type>>

\* deepcopy(x): a new object, equal to x and sharing nothing with it.
alias(src, fresh) == src

deepcopy(src, fresh) == fresh

(***************************************************************************)
(* MpiJob._update_container, _update_access_token, _update_running_user,   *)
(* _update_volumes: one assignment per template type, in order, on the     *)
(* object self._pod_templates[template_type] refers to.                    *)
(***************************************************************************)
Assign(t, place, key, value) ==
    CASE place = "container" ->
             [t EXCEPT !["spec"]["containers"][1] = SetKey(@, key, value)]
      [] place = "options" ->
             [t EXCEPT !["spec"]["volumes"][1]["flexVolume"]["options"] = SetKey(@, key, value)]
      [] place = "template" -> SetKey(t, key, value)

RECURSIVE ForEach(_, _, _, _, _, _)
ForEach(h, refs, template_types, place, key, value) ==
    IF template_types = <<>> THEN h
    ELSE LET r == refs[Head(template_types)]
         IN ForEach([h EXCEPT ![r] = Assign(h[r], place, key, value)],
                    refs, Tail(template_types), place, key, value)

_update_container(h, refs, key, value, template_types) ==
    ForEach(h, refs, template_types, "container", key, value)

_update_access_token(h, refs, token, template_types) ==
    ForEach(h, refs, template_types, "options", "accessKey", token)

_update_running_user(h, refs, username, template_types) ==
    ForEach(h, refs, template_types, "options", "subPath", <<Slash>> \o username)

_update_volumes(h, refs, volumes, template_types) ==
    ForEach(h, refs, template_types, "template", "volumes", volumes)

(***************************************************************************)
(* MpiJob._generate_mpi_job_template: the job structure holds the pod      *)
(* templates by reference; both roles are given the launcher's template.   *)
(***************************************************************************)
_generate_mpi_job_template(refs, name, namespace, worker_replicas) ==
    [apiVersion |-> "kubeflow.org/v1",
     kind |-> "MPIJob",
     metadata |-> [name |-> name, namespace |-> namespace],
     spec |-> [slotsPerWorker |-> 1,
               mpiReplicaSpecs |->
                   [Launcher |-> [template |-> refs[launcher]],
                    Worker |-> [replicas |-> worker_replicas,
                                template |-> refs[launcher]]]]]

(***************************************************************************)
(* MpiJob.to_dict: self._struct, as a reader of the returned dictionary    *)
(* sees it (every reference followed).                                     *)
(***************************************************************************)
to_dict_of(h, o) ==
    [o._struct EXCEPT
        !["spec"]["mpiReplicaSpecs"]["Launcher"]["template"] = h[@],
        !["spec"]["mpiReplicaSpecs"]["Worker"]["template"] = h[@]]

to_dict(b) == to_dict_of(heap, objs[b])

Constructed(b) == b \in DOMAIN objs

(***************************************************************************)
(* Inputs.  A falsy image ("" or None) is "", a falsy command (None or [])  *)
(* is <<>>.                                                                *)
(***************************************************************************)
Names == {"job1"}
Images == {"", "img"}
Commands == {<<>>, <<"a", "b">>}
Namespaces == {"default-tenant"}
Mounts == {"/data"}
VolPaths == {<<Tilde, Slash>>, <<"c", Slash, "s">>, <<>>}
AccessKeys == {"", "key"}
GpuTypes == {NvidiaGpu, "amd.com/gpu"}
WorkingDirs == {"/work"}
Environments ==
    {[V3IO_ACCESS_KEY |-> "", V3IO_USERNAME |-> <<>>, V3IO_HOME |-> <<>>],
     [V3IO_ACCESS_KEY |-> "envkey", V3IO_USERNAME |-> <<"b">>,
      V3IO_HOME |-> <<"u", Slash, "b">>]}
Get(name) == env[name]

Call(op, b, args, raised, remote, requests) ==
    [op |-> op, b |-> b, args |-> args, raised |-> raised, remote |-> remote,
     reported |-> (remote = "ApiException" /\ raised = "none"), requests |-> requests]
NoCall == Call("none", "none", <<>>, "none", "none", <<>>)
NoHist == [replicas |-> <<>>, gpus |-> <<>>, volume |-> <<>>]
NotCalled == Raised("not called")

Init ==
    /\ env \in Environments
    /\ heap = [r \in {ModuleRef(launcher), ModuleRef(worker)} |->
                  IF r = ModuleRef(launcher) THEN _mpijob_launcher_pod_template
                  ELSE _mpijob_worker_pod_template]
    /\ objs = <<>>
    /\ sent = <<>>
    /\ last = NoCall
    /\ hist = [b \in Builders |-> NoHist]
    /\ calls = 0
    /\ mntpath = <<>>
    /\ out = NotCalled
    /\ pc = "idle"

PathVarsUnchanged == UNCHANGED <<mntpath, out, pc>>

(***************************************************************************)
(* MpiJob.__init__.  The init field keeps the arguments the instance was   *)
(* constructed with; the code does not read it.                            *)
(***************************************************************************)
__init__(b, name, image, command, replicas, namespace) ==
    /\ calls < MaxCalls
    /\ ~Constructed(b)
    /\ b = "B" => Constructed("A")     \* "A" names the instance constructed first
    /\ LET refs == [t \in {launcher, worker} |-> deepcopy(ModuleRef(t), FreshRef(b, t))]
           h0 == SetKey(SetKey(heap, FreshRef(b, launcher), heap[ModuleRef(launcher)]),
                        FreshRef(b, worker), heap[ModuleRef(worker)])
           h1 == _update_container(h0, refs, "name", name, all)
           h2 == IF image # "" THEN _update_container(h1, refs, "image", image, all) ELSE h1
           h3 == IF command # <<>>
                 THEN _update_container(h2, refs, "command",
                                        <<"mpirun", "python">> \o command, <<worker>>)
                 ELSE h2
           h4 == _update_access_token(h3, refs, Get("V3IO_ACCESS_KEY"), all)
           h5 == _update_running_user(h4, refs, Get("V3IO_USERNAME"), all)
       IN /\ heap' = h5
          /\ objs' = SetKey(objs, b,
                        [api_instance |-> "None",
                         name |-> name,
                         namespace |-> namespace,
                         _pod_templates |-> refs,
                         _struct |-> _generate_mpi_job_template(refs, name, namespace,
                                                                replicas),
                         init |-> [image |-> image, command |-> command,
                                   replicas |-> replicas]])
    /\ last' = Call("__init__", b, <<>>, "none", "none", <<>>)
    /\ calls' = calls + 1
    /\ UNCHANGED <<env, sent, hist>>
    /\ PathVarsUnchanged

(***************************************************************************)
(* MpiJob.volume                                                           *)
(***************************************************************************)
startswith_home(volpath) ==
    Len(volpath) >= 2 /\ volpath[1] = Tilde /\ volpath[2] = Slash

volume(b, mount, volpath, access_key) ==
    /\ calls < MaxCalls
    /\ Constructed(b)
    /\ LET refs == objs[b]._pod_templates
           h1 == _update_container(heap, refs, "volumeMounts", <<VolumeMount(mount)>>, all)
           expanded == IF startswith_home(volpath)
                       THEN Get("V3IO_HOME") \o Tail(volpath)
                       ELSE volpath
           r == split_path(expanded)
           key == IF access_key # "" THEN access_key ELSE Get("V3IO_ACCESS_KEY")
           vol == FlexVolume(r.container, r.subpath, key)
       IN /\ heap' = IF r.raised = "none" THEN _update_volumes(h1, refs, <<vol>>, all) ELSE h1
          /\ last' = Call("volume", b, <<mount, volpath>>, r.raised, "none", <<>>)
          /\ hist' = [hist EXCEPT ![b].volume =
                         <<[mount |-> mount, volpath |-> volpath, raised |-> r.raised]>>]
    /\ calls' = calls + 1
    /\ UNCHANGED <<env, objs, sent>>
    /\ PathVarsUnchanged

(***************************************************************************)
(* MpiJob.gpus                                                             *)
(***************************************************************************)
gpus_on_worker == <<worker>>

gpus_template_types == <<launcher>>

gpus(b, num, gpu_type) ==
    /\ calls < MaxCalls
    /\ Constructed(b)
    /\ heap' = _update_container(heap, objs[b]._pod_templates, "resources",
                                 Limits(gpu_type, num), gpus_template_types)
    /\ last' = Call("gpus", b, <<num, gpu_type>>, "none", "none", <<>>)
    /\ hist' = [hist EXCEPT ![b].gpus = <<[num |-> num, gpu_type |-> gpu_type]>>]
    /\ calls' = calls + 1
    /\ UNCHANGED <<env, objs, sent>>
    /\ PathVarsUnchanged

(***************************************************************************)
(* MpiJob.replicas                                                         *)
(***************************************************************************)
replicas(b, replicas_num) ==
    /\ calls < MaxCalls
    /\ Constructed(b)
    /\ objs' = [objs EXCEPT ![b]._struct.spec = SetKey(@, "replicas", replicas_num)]
    /\ last' = Call("replicas", b, <<replicas_num>>, "none", "none", <<>>)
    /\ hist' = [hist EXCEPT ![b].replicas = <<replicas_num>>]
    /\ calls' = calls + 1
    /\ UNCHANGED <<env, heap, sent>>
    /\ PathVarsUnchanged

(***************************************************************************)
(* MpiJob.working_dir                                                      *)
(***************************************************************************)
working_dir(b, dir) ==
    /\ calls < MaxCalls
    /\ Constructed(b)
    /\ heap' = _update_container(heap, objs[b]._pod_templates, "workingDir", dir, all)
    /\ last' = Call("working_dir", b, <<dir>>, "none", "none", <<>>)
    /\ calls' = calls + 1
    /\ UNCHANGED <<env, objs, sent, hist>>
    /\ PathVarsUnchanged

(***************************************************************************)
(* The remote calls.  group, version, plural are the class attributes.     *)
(* "except ApiException" handles that exception and no other; an exception *)
(* that is not handled leaves the method (raised).                         *)
(***************************************************************************)
group == "kubeflow.org"
version == "v1"
plural == "mpijobs"

except_nothing(exc) == FALSE

except_ApiException(exc) == exc = "ApiException"

Outcome(exc) == IF exc = "ok" \/ except_ApiException(exc) THEN "none" ELSE exc

ConfigOutcomes == {"ok", "ConfigException"}
RemoteOutcomes == {"ok", "ApiException"}

\* Attribute lookup on self.api_instance: None has no client methods.
any_has_method(api_instance) == TRUE

has_method(api_instance) == api_instance # "None"

(***************************************************************************)
(* MpiJob.submit: config.load_incluster_config() may raise before the      *)
(* client is created; the create call is inside the try.                   *)
(***************************************************************************)
submit(b, loaded, remote) ==
    /\ calls < MaxCalls
    /\ Constructed(b)
    /\ IF loaded # "ok"
       THEN /\ last' = Call("submit", b, <<>>, loaded, "none", <<>>)
            /\ UNCHANGED <<objs, sent>>
       ELSE LET request == [op |-> "create", by |-> b, group |-> group,
                            version |-> version, namespace |-> objs[b].namespace,
                            plural |-> "mpijobs", name |-> "", body |-> to_dict(b)]
            IN /\ objs' = [objs EXCEPT ![b].api_instance = "CustomObjectsApi"]
               /\ sent' = Append(sent, request)
               /\ last' = Call("submit", b, <<>>, Outcome(remote), remote, <<request>>)
    /\ calls' = calls + 1
    /\ UNCHANGED <<env, heap, hist>>
    /\ PathVarsUnchanged

(***************************************************************************)
(* MpiJob.delete                                                           *)
(***************************************************************************)
delete(b, remote) ==
    /\ calls < MaxCalls
    /\ Constructed(b)
    /\ IF ~has_method(objs[b].api_instance)
       THEN /\ last' = Call("delete", b, <<>>, Outcome("AttributeError"), "none", <<>>)
            /\ UNCHANGED sent
       ELSE LET request == [op |-> "delete", by |-> b, group |-> group,
                            version |-> version, namespace |-> objs[b].namespace,
                            plural |-> plural, name |-> objs[b].name, body |-> <<>>]
            IN /\ sent' = Append(sent, request)
               /\ last' = Call("delete", b, <<>>, Outcome(remote), remote, <<request>>)
    /\ calls' = calls + 1
    /\ UNCHANGED <<env, heap, objs, hist>>
    /\ PathVarsUnchanged

Next ==
    \/ \E b \in Builders, name \in Names, image \in Images, command \in Commands,
          n \in 1..MaxReplicas, namespace \in Namespaces :
           __init__(b, name, image, command, n, namespace)
    \/ \E b \in Builders, mount \in Mounts, volpath \in VolPaths, access_key \in AccessKeys :
           volume(b, mount, volpath, access_key)
    \/ \E b \in Builders, num \in 1..MaxGpus, gpu_type \in GpuTypes : gpus(b, num, gpu_type)
    \/ \E b \in Builders, n \in (-1)..MaxReplicas : replicas(b, n)
    \/ \E b \in Builders, dir \in WorkingDirs : working_dir(b, dir)
    \/ \E b \in Builders, loaded \in ConfigOutcomes, remote \in RemoteOutcomes :
           submit(b, loaded, remote)
    \/ \E b \in Builders, remote \in RemoteOutcomes : delete(b, remote)

Spec == Init /\ [][Next]_vars

(***************************************************************************)
(* split_path on its own: every string of at most MaxLen letters.          *)
(***************************************************************************)
PathInit ==
    /\ env \in Environments
    /\ heap = [r \in {ModuleRef(launcher), ModuleRef(worker)} |->
                  IF r = ModuleRef(launcher) THEN _mpijob_launcher_pod_template
                  ELSE _mpijob_worker_pod_template]
    /\ objs = <<>>
    /\ sent = <<>>
    /\ last = NoCall
    /\ hist = [b \in Builders |-> NoHist]
    /\ calls = 0
    /\ mntpath \in StringsUpTo(MaxLen)
    /\ out = NotCalled
    /\ pc = "start"

call_split_path ==
    /\ pc = "start"
    /\ out' = split_path(mntpath)
    /\ pc' = "done"
    /\ UNCHANGED <<env, heap, objs, sent, last, hist, calls, mntpath>>

PathNext == call_split_path

PathSpec == PathInit /\ [][PathNext]_vars

(***************************************************************************)
(* Reading the descriptor to_dict returns.                                 *)
(***************************************************************************)
Roles == {"Launcher", "Worker"}
RoleOf(template_type) == IF template_type = launcher THEN "Launcher" ELSE "Worker"
DefaultOf(template_type) ==
    IF template_type = launcher THEN _mpijob_launcher_pod_template
    ELSE _mpijob_worker_pod_template
RoleTemplate(b, role) == to_dict(b).spec.mpiReplicaSpecs[role].template
RoleContainer(b, role) == RoleTemplate(b, role).spec.containers[1]
RoleVolumeOptions(b, role) == RoleTemplate(b, role).spec.volumes[1].flexVolume.options
WorkerReplicas(b) == to_dict(b).spec.mpiReplicaSpecs.Worker.replicas
Shows(d, key, value) == key \in DOMAIN d /\ d[key] = value

(***************************************************************************)
(* C1: a builder constructed with a non-empty command c shows, in every    *)
(* state after construction, the Worker role's container command           *)
(* ["mpirun", "python"] + c and an empty Launcher command.                 *)
(***************************************************************************)
C1_WorkerCommandPrefixed ==
    \A b \in DOMAIN objs :
        objs[b].init.command # <<>> =>
            /\ RoleContainer(b, "Worker").command =
                   <<"mpirun", "python">> \o objs[b].init.command
            /\ RoleContainer(b, "Launcher").command = <<>>

(***************************************************************************)
(* C2: the descriptor's worker replica count is the n >= 1 of the latest   *)
(* replicas(n) call, and the count given at construction before any call.  *)
(***************************************************************************)
C2_ReplicasShown ==
    \A b \in DOMAIN objs :
        /\ hist[b].replicas = <<>> => WorkerReplicas(b) = objs[b].init.replicas
        /\ (hist[b].replicas # <<>> /\ hist[b].replicas[1] >= 1) =>
               WorkerReplicas(b) = hist[b].replicas[1]

(***************************************************************************)
(* C3: after volume(mount=m, volpath=p) that returned, with p not starting *)
(* with "~/", every role's pod template shows a volume definition          *)
(* (spec.volumes[0]) whose container and subPath are split_path(p) and a   *)
(* volume mount whose mountPath is m.                                      *)
(***************************************************************************)
C3_VolumeShown ==
    \A b \in DOMAIN objs :
        (/\ hist[b].volume # <<>>
         /\ hist[b].volume[1].raised = "none"
         /\ ~startswith_home(hist[b].volume[1].volpath)) =>
            \A role \in Roles :
                /\ RoleVolumeOptions(b, role).container =
                       split_path(hist[b].volume[1].volpath).container
                /\ RoleVolumeOptions(b, role).subPath =
                       split_path(hist[b].volume[1].volpath).subpath
                /\ Shows(RoleContainer(b, role), "volumeMounts",
                         <<VolumeMount(hist[b].volume[1].mount)>>)

(***************************************************************************)
(* C4: replicas(count) with count < 1 raises, and the descriptor is the    *)
(* same after the call as before it.                                       *)
(***************************************************************************)
C4_ReplicasRejected ==
    [][(last'.op = "replicas" /\ last'.args[1] < 1) =>
          /\ last'.raised # "none"
          /\ to_dict_of(heap', objs'[last'.b]) = to_dict_of(heap, objs[last'.b])]_vars

(***************************************************************************)
(* C5: delete() on a builder whose client handle no submit() has set       *)
(* raises (the lookup on None: AttributeError) and hands no request to     *)
(* the client; every delete request sent is keyed by the builder's name    *)
(* and namespace and follows a create request of the same builder.         *)
(***************************************************************************)
C5_DeleteNeedsSubmit ==
    /\ (last.op = "delete" /\ objs[last.b].api_instance = "None") =>
           (last.raised = "AttributeError" /\ last.requests = <<>>)
    /\ (last.op = "delete" /\ objs[last.b].api_instance # "None") =>
           (/\ last.requests # <<>>
            /\ sent # <<>>
            /\ sent[Len(sent)] = last.requests[1]
            /\ last.requests[1].op = "delete")
    /\ \A i \in 1..Len(sent) :
           sent[i].op = "delete" =>
               /\ sent[i].name = objs[sent[i].by].name
               /\ sent[i].namespace = objs[sent[i].by].namespace
               /\ \E j \in 1..(i - 1) : sent[j].op = "create" /\ sent[j].by = sent[i].by

C5_Witness ==
    /\ last.op = "delete"
    /\ objs[last.b].api_instance = "None"
    /\ last.raised = "AttributeError"
    /\ last.requests = <<>>
    /\ sent = <<>>

(***************************************************************************)
(* C6: for a non-empty p, split_path strips exactly one leading "/" when   *)
(* there is one; the container is the part of the stripped string before   *)
(* its first "/", the subpath is the rest (empty, or starting with that    *)
(* "/"); and split_path("/" + p) = split_path(p) when p has no leading "/".*)
(***************************************************************************)
C6_SplitPath ==
    (pc = "done" /\ mntpath # <<>>) =>
        LET stripped == IF mntpath[1] = Slash THEN Tail(mntpath) ELSE mntpath
        IN /\ out.raised = "none"
           /\ \A i \in 1..Len(out.container) : out.container[i] # Slash
           /\ out.container \o out.subpath = stripped
           /\ out.subpath = <<>> \/ out.subpath[1] = Slash
           /\ mntpath[1] # Slash => split_path(<<Slash>> \o mntpath) = out

C6_Witness ==
    /\ pc = "done"
    /\ mntpath = <<Slash, Slash, "c", Slash>>
    /\ out = Returned(<<>>, <<Slash, "c", Slash>>)

(***************************************************************************)
(* C7: split_path("") raises (IndexError, the error of a path with no      *)
(* first letter), and no non-empty path raises.                            *)
(***************************************************************************)
C7_EmptyPathRaises ==
    pc = "done" =>
        /\ mntpath = <<>> => out = Raised("IndexError")
        /\ mntpath # <<>> => out.raised = "none"

C7_Witness == pc = "done" /\ mntpath = <<>> /\ out.raised = "IndexError"

(***************************************************************************)
(* C8: after gpus(num, gpu_type) the descriptor shows the resources        *)
(* {limits: {gpu_type: num}} on every role whose default pod template      *)
(* declares a resources block.                                             *)
(***************************************************************************)
RolesWithResources ==
    {RoleOf(t) : t \in {t \in {launcher, worker} :
                            "resources" \in DOMAIN DefaultOf(t).spec.containers[1]}}

C8_GpusShown ==
    \A b \in DOMAIN objs :
        hist[b].gpus # <<>> =>
            \A role \in RolesWithResources :
                Shows(RoleContainer(b, role), "resources",
                      Limits(hist[b].gpus[1].gpu_type, hist[b].gpus[1].num))

C8_Witness ==
    /\ RolesWithResources = {"Worker"}
    /\ \E b \in DOMAIN objs :
           /\ hist[b].gpus = <<[num |-> 2, gpu_type |-> "amd.com/gpu"]>>
           /\ last.op # "gpus"

(***************************************************************************)
(* C9: a submit() or delete() whose request the client fails with          *)
(* ApiException reports it and returns: nothing is raised, and the         *)
(* builder's descriptor, name and namespace are as before the call.        *)
(***************************************************************************)
C9_RemoteErrorSwallowed ==
    [][(last'.op \in {"submit", "delete"} /\ last'.remote = "ApiException") =>
          /\ last'.raised = "none"
          /\ last'.reported
          /\ to_dict_of(heap', objs'[last'.b]) = to_dict_of(heap, objs[last'.b])
          /\ objs'[last'.b].name = objs[last'.b].name
          /\ objs'[last'.b].namespace = objs[last'.b].namespace]_vars

C9_Witness ==
    /\ last.op = "delete"
    /\ last.remote = "ApiException"
    /\ \E i \in 1..Len(sent) : sent[i].op = "create"

(***************************************************************************)
(* C10: a constructor or mutator call on one builder leaves the other      *)
(* builder's attributes and descriptor as they were; the module-level      *)
(* default templates keep their initial values; and what a new builder     *)
(* takes over from the defaults is what the first one took over.           *)
(***************************************************************************)
Mutators == {"__init__", "volume", "gpus", "replicas", "working_dir"}

C10_NoSharedState ==
    /\ [](\A t \in {launcher, worker} : heap[ModuleRef(t)] = DefaultOf(t))
    /\ [](last.op = "__init__" =>
             \A t \in {launcher, worker} :
                 LET c == heap[objs[last.b]._pod_templates[t]].spec.containers[1]
                     d == DefaultOf(t).spec.containers[1]
                 IN /\ DOMAIN c = DOMAIN d
                    /\ \A k \in DOMAIN d \ {"name", "image", "command"} : c[k] = d[k])
    /\ [][\A b \in DOMAIN objs :
             (last'.op \in Mutators /\ last'.b # b) =>
                 /\ objs'[b] = objs[b]
                 /\ to_dict_of(heap', objs'[b]) = to_dict_of(heap, objs[b])]_vars

C10_Witness ==
    /\ last.op \in {"volume", "gpus", "working_dir"}
    /\ Constructed(Other(last.b))

====
